---- MODULE Spec2Model ----
(***************************************************************************)
(* Model of src/src/utilities/promise-utilities.ts: the polling engine     *)
(* (polling / polling.execute) and AbortablePromise / AbortError.          *)
(*                                                                         *)
(* Spec      : one call of polling(check, option) and its timer callbacks. *)
(* AbortSpec : one AbortablePromise, its executor's calls and abort calls. *)
(***************************************************************************)
EXTENDS Integers, Naturals, Sequences, FiniteSets, TLC

VARIABLES
    \* ---- polling ----
    pc,                 \* "ready": option built, polling not yet called; "called"
    option,             \* the caller's option object (parameter `option`)
    intervalArray,      \* contents of the array object option.interval refers to
    optionsErrorMessage,\* options.errorMessage of the merged copy `options`
    attempts,           \* let attempts
    maxAttempts,        \* let maxAttempts
    waitTime,           \* the array `[options.interval]` / `[]` when interval is no array
    timer,              \* the pending setTimeout(execute, delay, ...) of this run
    outcome,            \* state of the promise returned by polling
    checkCalls,         \* number of evaluations of check()
    trueAt,             \* index of the evaluation that returned true (0: none yet)
    logCount,           \* number of logCallback invocations
    lastStatus,         \* the PollingStatus passed to the last logCallback invocation
    pfcCalls,           \* number of postFailureCallback invocations
    pfcReturned,        \* what postFailureCallback returned ("none": not invoked)
    exhausted,          \* the branch `attempts < 1` (line 147) has been taken
    callerInterval,     \* the interval array as the caller built it, before the call
    timerCount,         \* number of timers of this run that are set and have not fired
    timersAtCheck,      \* timerCount at the moment of the last evaluation of check()
    \* ---- AbortablePromise ----
    pstate,             \* "pending" | "locked" | "fulfilled" | "rejected"
    pvalue,             \* fulfilment value / rejection reason
    abortReason,        \* this._abortReason
    signalAborted,      \* abortSignal.aborted
    thenable,           \* the promise handed to resolve(), when one was
    first,              \* the first of resolve / reject / abort that was called
    abortCalls,         \* number of abort() calls so far
    lastAbortArg,       \* argument of the last abort() call
    settleCalls,        \* number of executor resolve/reject calls so far
    executorListener,   \* what the "abort" listener the executor attached does
    \* ---- AbortablePromise.from ----
    kindOf,             \* per object reference: "free" | "plain" | "abortable"
    lastFrom,           \* argument and result of the last from() call
    prevFrom,           \* argument and result of the from() call before it
    source,             \* state of the plain promise p handed to from()
    reaction,           \* the then/catch reaction from() registered on p
    wrapper,            \* reference of w = from(p), 0 before that call
    \* ---- a second polling(check, option) call on the same option object ----
    second              \* the state of that run: pc and the fields of RunState

pollVars == <<pc, option, intervalArray, optionsErrorMessage, attempts,
              maxAttempts, waitTime, timer, outcome, checkCalls, trueAt,
              logCount, lastStatus, pfcCalls, pfcReturned, exhausted,
              callerInterval, timerCount, timersAtCheck>>
abortVars == <<pstate, pvalue, abortReason, signalAborted, thenable, first,
               abortCalls, lastAbortArg, settleCalls, executorListener>>
fromVars == <<kindOf, lastFrom, prevFrom, source, reaction, wrapper>>
secondVars == <<second>>
vars == <<pollVars, abortVars, fromVars, secondVars>>

-----------------------------------------------------------------------------
(* Bounds of the model *)
MaxAttempts == 3        \* option.attempts ranges over -1..MaxAttempts
MaxTimeoutSteps == 5    \* option.timeout ranges over 0, 20, .., 20*MaxTimeoutSteps
MaxIntervalLen == 3     \* interval arrays [10], [10,20], .. up to this length
MaxAbortCalls == 3      \* abort() is called at most this many times
MaxSettleCalls == 2     \* the executor calls resolve/reject at most this many times
MaxRefs == 4            \* object references 1..MaxRefs: from() creates at most MaxRefs - 2 wrappers

-----------------------------------------------------------------------------
(* JavaScript values: an optional property is absent, undefined or a value *)
Absent(z) == [k |-> "absent", v |-> z]
Undef(z) == [k |-> "undefined", v |-> z]
Just(x) == [k |-> "value", v |-> x]

\* !x for a number | undefined
Truthy(o) == o.k = "value" /\ o.v # 0
\* !x for a string | undefined
TruthyStr(o) == o.k = "value" /\ o.v # ""

IsArray(i) == i.k = "array"
\* truthiness of options.interval: number | number[] | undefined
TruthyInterval(i) == IsArray(i) \/ (i.k = "value" /\ i.v # 0)

\* a[0] of a JavaScript array
ElemAt0(a) == IF Len(a) > 0 THEN Just(a[1]) ELSE Undef(0)

ReverseIdentity(a) == a
\* Array.prototype.reverse
RECURSIVE Reverse(_)
Reverse(a) == IF a = <<>> THEN <<>> ELSE Append(Reverse(Tail(a)), Head(a))

\* Array.prototype.pop: the last element and the shortened array
Pop(a) == [w |-> Just(a[Len(a)]), arr |-> SubSeq(a, 1, Len(a) - 1)]

-----------------------------------------------------------------------------
(* polling: defaults, validation, attempt budget *)
DefaultAttempts == 25
DefaultInterval == 200
DefaultTimeout == 5000

\* const options = { ...defaultOption, ...option }
MergedOptions(o) ==
    [mode |-> o.mode,
     attempts |-> IF o.attempts.k = "absent" THEN Just(DefaultAttempts) ELSE o.attempts,
     timeout |-> IF o.timeout.k = "absent" THEN Just(DefaultTimeout) ELSE o.timeout,
     interval |-> IF o.interval.k = "absent" THEN Just(DefaultInterval) ELSE o.interval,
     errorMessage |-> IF o.errorMessage.k = "absent" THEN Undef("") ELSE o.errorMessage,
     ignoreFailureException |-> o.ignoreFailureException,
     logCallback |-> o.logCallback,
     postFailureCallback |-> o.postFailureCallback]

ValidationErrorNoModeCheck(os) ==
    IF os.mode = "timeout" /\ ~Truthy(os.timeout) /\ ~TruthyInterval(os.interval)
    THEN "timeout and interval must be provided when mode is 'timeout'"
    ELSE IF os.mode = "retry" /\ ~Truthy(os.attempts)
    THEN "attempts must be provided when mode is 'retry'"
    ELSE ""

\* the three throw statements; "" when the options pass validation
ValidationError(os) ==
    IF ~(os.mode = "retry" \/ os.mode = "timeout")
    THEN "mode must be either 'retry' or 'timeout'"
    ELSE IF os.mode = "timeout" /\ ~Truthy(os.timeout) /\ ~TruthyInterval(os.interval)
    THEN "timeout and interval must be provided when mode is 'timeout'"
    ELSE IF os.mode = "retry" /\ ~Truthy(os.attempts)
    THEN "attempts must be provided when mode is 'retry'"
    ELSE ""

\* interval used for the budget: the last element of a sequence, else the scalar
EffectiveInterval(i, arr) == IF IsArray(i) THEN arr[Len(arr)] ELSE i.v

TimeoutBudgetCeil(timeout, interval) == (timeout + interval - 1) \div interval
\* Math.floor(options.timeout / interval)
TimeoutBudget(timeout, interval) == timeout \div interval

\* attempts / maxAttempts / options.errorMessage after lines 88-101
DeriveBudget(os, arr) ==
    IF os.mode = "timeout" /\ Truthy(os.timeout) /\ TruthyInterval(os.interval)
    THEN [attempts |-> TimeoutBudget(os.timeout.v, EffectiveInterval(os.interval, arr)),
          errorMessage |-> IF ~TruthyStr(os.errorMessage)
                           THEN Just("Timed out retrying.") ELSE os.errorMessage]
    ELSE IF os.mode = "retry" /\ Truthy(os.attempts)
    THEN [attempts |-> os.attempts.v,
          errorMessage |-> IF ~TruthyStr(os.errorMessage)
                           THEN Just("Retried too many times.") ELSE os.errorMessage]
    ELSE [attempts |-> 0, errorMessage |-> os.errorMessage]


-----------------------------------------------------------------------------
(* the promise returned by polling *)
NoReason == [k |-> "none", v |-> ""]
Pending == [state |-> "pending", bool |-> FALSE, reason |-> NoReason]

\* resolve(b) of the promise; a settled promise ignores it
PromiseResolve(o, b) ==
    IF o.state = "pending" THEN [state |-> "resolved", bool |-> b, reason |-> NoReason]
    ELSE o

\* reject(reason) of the promise; a settled promise ignores it
PromiseReject(o, reason) ==
    IF o.state = "pending" THEN [state |-> "rejected", bool |-> FALSE, reason |-> reason]
    ELSE o

\* the value of `option.errorMessage` (the caller's object) handed to reject
RejectArgument(o) ==
    IF o.errorMessage.k = "value" THEN [k |-> "string", v |-> o.errorMessage.v]
    ELSE [k |-> "undefined", v |-> ""]

NoTimer == [pending |-> FALSE, delay |-> 0]
NoStatus == [attempt |-> 0, interval |-> Undef(0), maxAttempts |-> 0, status |-> FALSE]

-----------------------------------------------------------------------------
(* polling.execute, as a function of the run's state s, the result r of    *)
(* check() and the value fn that postFailureCallback returns if invoked.   *)
(* dateTimeNow and executionTime of a status are clock readings and are    *)
(* left out of the status record.                                          *)

\* lines 116-126: currentWaitTime and the interval array after the step
CurrentWaitTime(s) ==
    IF IsArray(option.interval)
    THEN IF Len(s.arr) > 1
         THEN IF option.mode # "timeout" THEN Pop(s.arr)
              ELSE [w |-> Just(0), arr |-> s.arr]
         ELSE [w |-> ElemAt0(s.arr), arr |-> s.arr]
    ELSE [w |-> ElemAt0(s.wt), arr |-> s.arr]

DecrementAndLogStale(s, w, r) ==
    LET a == s.attempts - 1 IN
    IF option.logCallback
    THEN [s EXCEPT !.attempts = a,
                   !.logCount = @ + 1,
                   !.lastStatus = [attempt |-> s.maxAttempts - s.attempts, interval |-> w,
                                   maxAttempts |-> s.maxAttempts, status |-> r]]
    ELSE [s EXCEPT !.attempts = a]

\* --attempts followed by the guarded options.logCallback({...})
DecrementAndLog(s, w, r) ==
    LET a == s.attempts - 1 IN
    IF option.logCallback
    THEN [s EXCEPT !.attempts = a,
                   !.logCount = @ + 1,
                   !.lastStatus = [attempt |-> s.maxAttempts - a, interval |-> w,
                                   maxAttempts |-> s.maxAttempts, status |-> r]]
    ELSE [s EXCEPT !.attempts = a]

OnExhaustedTrueOnly(s, fn) ==
    LET e == [s EXCEPT !.exhausted = TRUE] IN
    IF option.postFailureCallback
    THEN LET c == [e EXCEPT !.pfcCalls = @ + 1, !.pfcReturned = fn] IN
         IF fn = "true"
         THEN [c EXCEPT !.outcome = PromiseResolve(@, TRUE)]
         ELSE c
    ELSE IF ~option.ignoreFailureException
    THEN [e EXCEPT !.outcome = PromiseReject(@, RejectArgument(option))]
    ELSE e

OnExhaustedAlwaysReject(s, fn) ==
    LET e == [s EXCEPT !.exhausted = TRUE] IN
    IF option.postFailureCallback
    THEN LET c == [e EXCEPT !.pfcCalls = @ + 1, !.pfcReturned = fn] IN
         IF fn = "true" \/ fn = "false"
         THEN [c EXCEPT !.outcome = PromiseResolve(@, fn = "true")]
         ELSE c
    ELSE [e EXCEPT !.outcome = PromiseReject(@, RejectArgument(option))]

\* lines 147-159: the branch `if (attempts < 1) { ... return; }`
OnExhausted(s, fn) ==
    LET e == [s EXCEPT !.exhausted = TRUE] IN
    IF option.postFailureCallback
    THEN LET c == [e EXCEPT !.pfcCalls = @ + 1, !.pfcReturned = fn] IN
         IF fn = "true" \/ fn = "false"
         THEN [c EXCEPT !.outcome = PromiseResolve(@, fn = "true")]
         ELSE c
    ELSE IF ~option.ignoreFailureException
    THEN [e EXCEPT !.outcome = PromiseReject(@, RejectArgument(option))]
    ELSE e

\* lines 160-176: `if (currentWaitTime) { --attempts; log; setTimeout(...) }`
ScheduleNext(s, w) ==
    IF Truthy(w)
    THEN [DecrementAndLog(s, w, FALSE) EXCEPT !.timer = [pending |-> TRUE, delay |-> w.v],
                                              !.timerCount = @ + 1]
    ELSE s

AfterCheckNoReturn(s, w, r, fn) ==
    LET t == IF r THEN [DecrementAndLog(s, w, TRUE) EXCEPT !.outcome = PromiseResolve(@, TRUE)]
             ELSE s
    IN IF t.attempts < 1 THEN OnExhausted(t, fn) ELSE ScheduleNext(t, w)

\* lines 130-176: what execute does with the result of check()
AfterCheck(s, w, r, fn) ==
    IF r THEN [DecrementAndLog(s, w, TRUE) EXCEPT !.outcome = PromiseResolve(@, TRUE)]
    ELSE IF s.attempts < 1 THEN OnExhausted(s, fn)
    ELSE ScheduleNext(s, w)

\* lines 112-177: one run of execute
ExecuteStep(s, r, fn) ==
    LET c == CurrentWaitTime(s)
        n == s.checkCalls + 1
        left == IF s.timerCount > 0 THEN s.timerCount - 1 ELSE 0
        s1 == [s EXCEPT !.arr = c.arr, !.timer = NoTimer, !.checkCalls = n,
                        !.trueAt = IF r /\ @ = 0 THEN n ELSE @,
                        !.timerCount = left, !.timersAtCheck = left]
    IN AfterCheck(s1, c.w, r, fn)

-----------------------------------------------------------------------------
(* state of the run as a record, and back *)
RunState ==
    [attempts |-> attempts, maxAttempts |-> maxAttempts, arr |-> intervalArray,
     wt |-> waitTime, timer |-> timer, outcome |-> outcome, checkCalls |-> checkCalls,
     trueAt |-> trueAt, logCount |-> logCount, lastStatus |-> lastStatus,
     pfcCalls |-> pfcCalls, pfcReturned |-> pfcReturned, exhausted |-> exhausted,
     timerCount |-> timerCount, timersAtCheck |-> timersAtCheck]

SetRunState(n) ==
    /\ attempts' = n.attempts
    /\ maxAttempts' = n.maxAttempts
    /\ intervalArray' = n.arr
    /\ waitTime' = n.wt
    /\ timer' = n.timer
    /\ outcome' = n.outcome
    /\ checkCalls' = n.checkCalls
    /\ trueAt' = n.trueAt
    /\ logCount' = n.logCount
    /\ lastStatus' = n.lastStatus
    /\ pfcCalls' = n.pfcCalls
    /\ pfcReturned' = n.pfcReturned
    /\ exhausted' = n.exhausted
    /\ timerCount' = n.timerCount
    /\ timersAtCheck' = n.timersAtCheck

PFCReturns == {"true", "false", "void"}

\* polling(check, option): lines 63-111 and the first, synchronous execute
\* made by `new Promise(execute)`.  A throw in the async function rejects
\* the returned promise with the Error.
Polling(r, fn) ==
    /\ pc = "ready"
    /\ pc' = "called"
    /\ UNCHANGED <<option, callerInterval, abortVars, fromVars, secondVars>>
    /\ LET os == MergedOptions(option)
           err == ValidationError(os)
       IN IF err # ""
          THEN /\ outcome' = PromiseReject(outcome, [k |-> "Error", v |-> err])
               /\ UNCHANGED <<intervalArray, optionsErrorMessage, attempts, maxAttempts,
                              waitTime, timer, checkCalls, trueAt, logCount, lastStatus,
                              pfcCalls, pfcReturned, exhausted, timerCount,
                              timersAtCheck>>
          ELSE LET b == DeriveBudget(os, intervalArray)
                   s0 == [RunState EXCEPT
                            !.attempts = b.attempts,
                            !.maxAttempts = b.attempts,
                            !.arr = IF IsArray(os.interval) THEN Reverse(intervalArray) ELSE @,
                            !.wt = IF TruthyInterval(os.interval) /\ ~IsArray(os.interval)
                                   THEN <<os.interval.v>> ELSE <<>>]
               IN /\ optionsErrorMessage' = b.errorMessage
                  /\ SetRunState(ExecuteStep(s0, r, fn))

\* the timer set by setTimeout(execute, currentWaitTime, resolve, reject) fires
TimerFires(r, fn) ==
    /\ pc = "called"
    /\ timer.pending
    /\ SetRunState(ExecuteStep(RunState, r, fn))
    /\ UNCHANGED <<pc, option, optionsErrorMessage, callerInterval, abortVars, fromVars, secondVars>>

-----------------------------------------------------------------------------
(* A second call polling(check, option) with the same option object.  Its  *)
(* closure has its own attempts, maxAttempts, timer and promise; what it   *)
(* shares with the first call is the option object, whose interval array   *)
(* both calls reverse in place and both pop from.                         *)
FreshRun ==
    [pc |-> "ready", attempts |-> 0, maxAttempts |-> 0, arr |-> <<>>, wt |-> <<>>,
     timer |-> NoTimer, outcome |-> Pending, checkCalls |-> 0, trueAt |-> 0,
     logCount |-> 0, lastStatus |-> NoStatus, pfcCalls |-> 0, pfcReturned |-> "none",
     exhausted |-> FALSE, timerCount |-> 0, timersAtCheck |-> 0]

\* the variables of the first call other than the shared interval array
firstRunVars == <<pc, option, optionsErrorMessage, attempts, maxAttempts, waitTime,
                  timer, outcome, checkCalls, trueAt, logCount, lastStatus, pfcCalls,
                  pfcReturned, exhausted, callerInterval, timerCount, timersAtCheck>>

\* the second call's state after a run of execute; the array lives in intervalArray
SetSecond(n) ==
    /\ second' = [n EXCEPT !.arr = <<>>]
    /\ intervalArray' = n.arr

\* polling(check, option) called again: lines 63-111 and the first execute
SecondPolling(r, fn) ==
    /\ second.pc = "ready"
    /\ UNCHANGED <<firstRunVars, abortVars, fromVars>>
    /\ LET os == MergedOptions(option)
           err == ValidationError(os)
       IN IF err # ""
          THEN /\ second' = [second EXCEPT !.pc = "called",
                                !.outcome = PromiseReject(@, [k |-> "Error", v |-> err])]
               /\ UNCHANGED intervalArray
          ELSE LET b == DeriveBudget(os, intervalArray)
                   s0 == [second EXCEPT
                            !.pc = "called",
                            !.attempts = b.attempts,
                            !.maxAttempts = b.attempts,
                            !.arr = IF IsArray(os.interval) THEN Reverse(intervalArray)
                                    ELSE intervalArray,
                            !.wt = IF TruthyInterval(os.interval) /\ ~IsArray(os.interval)
                                   THEN <<os.interval.v>> ELSE <<>>]
               IN SetSecond(ExecuteStep(s0, r, fn))

\* the timer of the second call fires
SecondTimerFires(r, fn) ==
    /\ second.pc = "called"
    /\ second.timer.pending
    /\ SetSecond(ExecuteStep([second EXCEPT !.arr = intervalArray], r, fn))
    /\ UNCHANGED <<firstRunVars, abortVars, fromVars>>

InitSecond == second = FreshRun

-----------------------------------------------------------------------------
(* the caller's option objects *)
Timeouts == {20 * k : k \in 0..MaxTimeoutSteps}
ScalarIntervals == {0, 25, 30}
IntervalArrays == {[i \in 1..n |-> 10 * i] : n \in 1..MaxIntervalLen}
ArrayInterval == [k |-> "array", v |-> 0]

AttemptsValues == {Absent(0), Undef(0)} \cup {Just(n) : n \in (-1)..MaxAttempts}
TimeoutValues == {Absent(0), Undef(0)} \cup {Just(t) : t \in Timeouts}
IntervalValues == {Absent(0), Undef(0), ArrayInterval} \cup {Just(i) : i \in ScalarIntervals}
ErrorMessages == {Absent(""), Undef(""), Just("boom")}

\* attempts is only read in retry mode and timeout only in timeout mode, so
\* the field the mode does not read is left absent.
Options ==
    {o \in [mode : {"retry", "timeout", "loop"},
            attempts : AttemptsValues,
            timeout : TimeoutValues,
            interval : IntervalValues,
            errorMessage : ErrorMessages,
            ignoreFailureException : BOOLEAN,
            logCallback : BOOLEAN,
            postFailureCallback : BOOLEAN] :
        /\ o.mode # "retry" => o.attempts = Absent(0)
        /\ o.mode # "timeout" => o.timeout = Absent(0)
        /\ o.mode = "loop" => /\ o.interval = Absent(0)
                              /\ o.errorMessage = Absent("")}

InitRun ==
    /\ pc = "ready"
    /\ optionsErrorMessage = Undef("")
    /\ attempts = 0
    /\ maxAttempts = 0
    /\ waitTime = <<>>
    /\ timer = NoTimer
    /\ outcome = Pending
    /\ checkCalls = 0
    /\ trueAt = 0
    /\ logCount = 0
    /\ lastStatus = NoStatus
    /\ pfcCalls = 0
    /\ pfcReturned = "none"
    /\ exhausted = FALSE
    /\ callerInterval = intervalArray
    /\ timerCount = 0
    /\ timersAtCheck = 0

InitPolling ==
    /\ option \in Options
    /\ intervalArray \in (IF IsArray(option.interval) THEN IntervalArrays ELSE {<<>>})
    /\ InitRun

-----------------------------------------------------------------------------
(* AbortablePromise extends Promise.  The promise is "pending" until one   *)
(* of its resolving functions is called; resolve(p) with a pending promise *)
(* p makes it "locked" (it follows p and ignores every later call); it is  *)
(* settled when "fulfilled" or "rejected".                                 *)
NoValue == [k |-> "none", v |-> ""]
Value(x) == [k |-> "value", v |-> x]
Error(x) == [k |-> "error", v |-> x]

\* new AbortError(message): name "AbortError", message defaults to "Aborted"
AbortError(message) ==
    [k |-> "AbortError", v |-> IF message.k = "value" THEN message.v ELSE "Aborted"]

Settled(p) == p.state \in {"fulfilled", "rejected"}

\* resolve(value) with a value that is no promise
SettleResolve(p, x) ==
    IF p.state = "pending" THEN [state |-> "fulfilled", value |-> Value(x)] ELSE p

\* resolve(promise) with a pending promise
SettleLock(p) ==
    IF p.state = "pending" THEN [state |-> "locked", value |-> NoValue] ELSE p

\* reject(reason)
SettleReject(p, reason) ==
    IF p.state = "pending" THEN [state |-> "rejected", value |-> reason] ELSE p

AbortListenerNoReason(p, reason) == SettleReject(p, AbortError(Undef("")))
AbortListenerUnguarded(p, reason) == [state |-> "rejected", value |-> AbortError(reason)]
\* the listener of lines 218-220: reject(new AbortError(this.abortReason))
AbortListener(p, reason) == SettleReject(p, AbortError(reason))

\* what the executor's own "abort" listener does when the event reaches it
ExecutorListeners == {"resolve", "reject"}
ExecutorListenerRuns(p, listener) ==
    IF listener = "resolve" THEN SettleResolve(p, "late")
    ELSE IF listener = "reject" THEN SettleReject(p, Error("late"))
    ELSE p

DispatchAbortExecutorFirst(p, reason, listener) ==
    AbortListener(ExecutorListenerRuns(p, listener), reason)

\* abortController.abort() runs the listeners of the signal in the order of
\* their registration: the constructor's (line 218) before any the executor
\* added when it was called with the signal (line 222)
DispatchAbort(p, reason, listener) ==
    ExecutorListenerRuns(AbortListener(p, reason), listener)

AbortReasonOfAlwaysDefault(reason) == "Aborted"
\* reason ? reason : "Aborted"
AbortReasonOf(reason) == IF TruthyStr(reason) THEN reason.v ELSE "Aborted"

ThePromise == [state |-> pstate, value |-> pvalue]

SetPromise(p) ==
    /\ pstate' = p.state
    /\ pvalue' = p.value

NoCall == [op |-> "none", arg |-> Undef("")]
RecordFirst(op, arg) == IF first.op = "none" THEN [op |-> op, arg |-> arg] ELSE first

ResolveValues == {"v1", "v2"}
RejectReasons == {"e1", "e2"}
AbortArguments == {Undef(""), Just(""), Just("x"), Just("y")}

\* the executor calls resolve(x) with a plain value
ExecutorResolve(x) ==
    /\ settleCalls < MaxSettleCalls
    /\ settleCalls' = settleCalls + 1
    /\ SetPromise(SettleResolve(ThePromise, x))
    /\ first' = RecordFirst("resolve", Just(x))
    /\ UNCHANGED <<abortReason, signalAborted, thenable, abortCalls, lastAbortArg,
                   executorListener, pollVars, fromVars, secondVars>>

\* the executor calls resolve(p) with a promise p that is still pending
ExecutorResolvePromise ==
    /\ settleCalls < MaxSettleCalls
    /\ thenable.state = "none"
    /\ settleCalls' = settleCalls + 1
    /\ SetPromise(SettleLock(ThePromise))
    /\ thenable' = IF pstate = "pending" THEN [state |-> "pending", value |-> NoValue]
                   ELSE thenable
    /\ first' = RecordFirst("resolvePromise", Undef(""))
    /\ UNCHANGED <<abortReason, signalAborted, abortCalls, lastAbortArg,
                   executorListener, pollVars, fromVars, secondVars>>

\* the executor calls reject(e)
ExecutorReject(e) ==
    /\ settleCalls < MaxSettleCalls
    /\ settleCalls' = settleCalls + 1
    /\ SetPromise(SettleReject(ThePromise, Error(e)))
    /\ first' = RecordFirst("reject", Just(e))
    /\ UNCHANGED <<abortReason, signalAborted, thenable, abortCalls, lastAbortArg,
                   executorListener, pollVars, fromVars, secondVars>>

\* the promise the AbortablePromise was resolved with settles
PromiseSettles(state, val) ==
    /\ thenable.state = "pending"
    /\ thenable' = [state |-> state, value |-> val]
    /\ pstate' = state
    /\ pvalue' = val
    /\ UNCHANGED <<abortReason, signalAborted, first, abortCalls, lastAbortArg,
                   settleCalls, executorListener,
                   pollVars, fromVars, secondVars>>

\* the executor registers a listener for "abort" on the signal it was given
ExecutorListens(listener) ==
    /\ executorListener = "none"
    /\ ~signalAborted
    /\ executorListener' = listener
    /\ UNCHANGED <<pstate, pvalue, abortReason, signalAborted, thenable, first,
                   abortCalls, lastAbortArg, settleCalls, pollVars, fromVars, secondVars>>

AbortFirstReasonOnly(reason) ==
    /\ abortCalls < MaxAbortCalls
    /\ abortCalls' = abortCalls + 1
    /\ lastAbortArg' = reason
    /\ abortReason' = IF abortReason.k = "undefined" THEN Just(AbortReasonOf(reason))
                      ELSE abortReason
    /\ signalAborted' = TRUE
    /\ SetPromise(IF signalAborted THEN ThePromise
                  ELSE DispatchAbort(ThePromise, abortReason', executorListener))
    /\ first' = RecordFirst("abort", reason)
    /\ UNCHANGED <<thenable, settleCalls, executorListener,
                   pollVars, fromVars, secondVars>>

\* this.abort(reason), lines 226-229; abortController.abort() dispatches
\* the "abort" event only the first time
Abort(reason) ==
    /\ abortCalls < MaxAbortCalls
    /\ abortCalls' = abortCalls + 1
    /\ lastAbortArg' = reason
    /\ abortReason' = Just(AbortReasonOf(reason))
    /\ signalAborted' = TRUE
    /\ SetPromise(IF signalAborted THEN ThePromise
                  ELSE DispatchAbort(ThePromise, abortReason', executorListener))
    /\ first' = RecordFirst("abort", reason)
    /\ UNCHANGED <<thenable, settleCalls, executorListener,
                   pollVars, fromVars, secondVars>>

\* new AbortablePromise(executor) whose executor has not yet called anything
InitAbortable ==
    /\ pstate = "pending"
    /\ pvalue = NoValue
    /\ abortReason = Undef("")
    /\ signalAborted = FALSE
    /\ thenable = [state |-> "none", value |-> NoValue]
    /\ first = NoCall
    /\ abortCalls = 0
    /\ lastAbortArg = Undef("")
    /\ settleCalls = 0
    /\ executorListener = "none"

-----------------------------------------------------------------------------
(* AbortablePromise.from.  Objects are references 1..MaxRefs: 1 is a plain  *)
(* promise p, 2 an AbortablePromise built with the constructor, the others  *)
(* are free until from() allocates a wrapper.  The AbortablePromise state   *)
(* (pstate, pvalue, abortReason, ...) is that of w, the first wrapper that  *)
(* from(p) creates.                                                         *)
Refs == 1..MaxRefs
NoFrom == [arg |-> 0, res |-> 0]

\* the reference `new AbortablePromise(...)` allocates; 0 when none is left
NewRef(kinds) ==
    IF \E r \in Refs : kinds[r] = "free"
    THEN CHOOSE r \in Refs : kinds[r] = "free" /\ \A q \in Refs : kinds[q] = "free" => r <= q
    ELSE 0

FromResultAlwaysWraps(arg, kinds) == NewRef(kinds)
\* lines 202-209: promise instanceof AbortablePromise ? promise : new wrapper
FromResult(arg, kinds) == IF kinds[arg] = "abortable" THEN arg ELSE NewRef(kinds)

ForwardSettlementNoCatch(p, src) ==
    IF src.state = "fulfilled" THEN SettleResolve(p, src.value.v) ELSE p
\* line 207: promise.then(resolve).catch(reject), once promise has settled
ForwardSettlement(p, src) ==
    IF src.state = "fulfilled" THEN SettleResolve(p, src.value.v)
    ELSE SettleReject(p, src.value)

\* AbortablePromise.from(arg)
From(arg) ==
    LET res == FromResult(arg, kindOf) IN
    /\ kindOf[arg] # "free"
    /\ NewRef(kindOf) # 0
    /\ kindOf' = IF kindOf[res] = "free" THEN [kindOf EXCEPT ![res] = "abortable"]
                 ELSE kindOf
    /\ lastFrom' = [arg |-> arg, res |-> res]
    /\ prevFrom' = lastFrom
    /\ IF kindOf[arg] = "plain" /\ wrapper = 0 /\ kindOf[res] = "free"
       THEN /\ wrapper' = res
            /\ reaction' = IF source.state = "pending" THEN "waiting" ELSE "queued"
       ELSE UNCHANGED <<wrapper, reaction>>
    /\ UNCHANGED <<source, abortVars, pollVars, secondVars>>

\* the plain promise p settles on its own
SourceSettles(state, val) ==
    /\ source.state = "pending"
    /\ source' = [state |-> state, value |-> val]
    /\ reaction' = IF reaction = "waiting" THEN "queued" ELSE reaction
    /\ UNCHANGED <<kindOf, lastFrom, prevFrom, wrapper, abortVars, pollVars, secondVars>>

\* the reaction registered by line 207 runs: resolve / reject of w is called
FromReaction ==
    /\ reaction = "queued"
    /\ reaction' = "done"
    /\ SetPromise(ForwardSettlement(ThePromise, source))
    /\ first' = RecordFirst(IF source.state = "fulfilled" THEN "resolve" ELSE "reject",
                            Just(source.value.v))
    /\ settleCalls' = settleCalls + 1
    /\ UNCHANGED <<abortReason, signalAborted, thenable, abortCalls, lastAbortArg,
                   executorListener, kindOf, lastFrom, prevFrom, source, wrapper,
                   pollVars, secondVars>>

\* w.abort(reason), possible once from(p) has returned w
WrapperAbort(reason) ==
    /\ wrapper # 0
    /\ Abort(reason)

InitFrom ==
    /\ kindOf = [r \in Refs |-> IF r = 1 THEN "plain" ELSE IF r = 2 THEN "abortable"
                                 ELSE "free"]
    /\ lastFrom = NoFrom
    /\ prevFrom = NoFrom
    /\ source = [state |-> "pending", value |-> NoValue]
    /\ reaction = "none"
    /\ wrapper = 0

-----------------------------------------------------------------------------
(* Specifications *)
Init == InitPolling /\ InitAbortable /\ InitFrom /\ InitSecond

Next ==
    \/ \E r \in BOOLEAN, fn \in PFCReturns : Polling(r, fn)
    \/ \E r \in BOOLEAN, fn \in PFCReturns : TimerFires(r, fn)

Spec == Init /\ [][Next]_vars

\* no polling call is made while the AbortablePromise is exercised
AbortInit ==
    /\ option = [mode |-> "retry", attempts |-> Just(1), timeout |-> Absent(0),
                 interval |-> Just(25), errorMessage |-> Absent(""),
                 ignoreFailureException |-> FALSE, logCallback |-> FALSE,
                 postFailureCallback |-> FALSE]
    /\ intervalArray = <<>>
    /\ InitRun
    /\ InitAbortable
    /\ InitFrom
    /\ InitSecond

AbortNext ==
    \/ \E x \in ResolveValues : ExecutorResolve(x)
    \/ ExecutorResolvePromise
    \/ \E e \in RejectReasons : ExecutorReject(e)
    \/ \E x \in ResolveValues : PromiseSettles("fulfilled", Value(x))
    \/ \E e \in RejectReasons : PromiseSettles("rejected", Error(e))
    \/ \E reason \in AbortArguments : Abort(reason)
    \/ \E listener \in ExecutorListeners : ExecutorListens(listener)

AbortSpec == AbortInit /\ [][AbortNext]_vars

\* two polling calls on one option object, their attempts interleaved
TwoOptions ==
    {o \in Options :
        /\ o.mode = "retry" => o.attempts \in {Just(n) : n \in 1..MaxAttempts}
        /\ o.mode = "timeout" => (o.timeout.k = "value" /\ o.timeout.v > 0)
        /\ o.mode # "loop"
        /\ o.interval \in {ArrayInterval, Just(25)}
        /\ o.errorMessage = Absent("")
        /\ ~o.postFailureCallback}

TwoInit ==
    /\ option \in TwoOptions
    /\ intervalArray \in (IF IsArray(option.interval) THEN IntervalArrays ELSE {<<>>})
    /\ InitRun
    /\ InitAbortable
    /\ InitFrom
    /\ InitSecond

TwoNext ==
    \/ \E r \in BOOLEAN, fn \in PFCReturns : Polling(r, fn)
    \/ \E r \in BOOLEAN, fn \in PFCReturns : TimerFires(r, fn)
    \/ \E r \in BOOLEAN, fn \in PFCReturns : SecondPolling(r, fn)
    \/ \E r \in BOOLEAN, fn \in PFCReturns : SecondTimerFires(r, fn)

TwoSpec == TwoInit /\ [][TwoNext]_vars

\* from() calls, the settlement of p and abort calls on the wrapper
FromInit == AbortInit

FromNext ==
    \/ \E arg \in Refs : From(arg)
    \/ \E x \in ResolveValues : SourceSettles("fulfilled", Value(x))
    \/ \E e \in RejectReasons : SourceSettles("rejected", Error(e))
    \/ FromReaction
    \/ \E reason \in AbortArguments : WrapperAbort(reason)

FromSpec == FromInit /\ [][FromNext]_vars

-----------------------------------------------------------------------------
(* Vocabulary of the properties *)
Options_ == MergedOptions(option)
Valid == ValidationError(Options_) = ""
\* the run has been started and no timer of it is pending
Quiescent == pc = "called" /\ ~timer.pending
PositiveScalarInterval == Options_.interval.k = "value" /\ Options_.interval.v > 0
\* a configuration the specification calls valid, with a positive scalar interval
ValidScalarConfig ==
    /\ PositiveScalarInterval
    /\ \/ option.mode = "retry" /\ Options_.attempts.k = "value" /\ Options_.attempts.v > 0
       \/ option.mode = "timeout" /\ Options_.timeout.k = "value" /\ Options_.timeout.v > 0
\* a configuration the specification calls valid, whatever the interval is
ValidConfig ==
    \/ option.mode = "retry" /\ Options_.attempts.k = "value" /\ Options_.attempts.v > 0
    \/ /\ option.mode = "timeout" /\ Options_.timeout.k = "value" /\ Options_.timeout.v > 0
       /\ TruthyInterval(Options_.interval)
\* the attempt budget B of such a configuration
Budget ==
    IF option.mode = "retry" THEN Options_.attempts.v
    ELSE Options_.timeout.v \div Options_.interval.v
\* the message the specification expects on exhaustion
ExpectedErrorMessage ==
    IF option.errorMessage.k = "value" THEN option.errorMessage.v
    ELSE IF option.mode = "retry" THEN "Retried too many times."
    ELSE "Timed out retrying."
RejectedWith(msg) ==
    outcome.state = "rejected" /\ outcome.reason = [k |-> "string", v |-> msg]
ResolvedWith(b) == outcome.state = "resolved" /\ outcome.bool = b

-----------------------------------------------------------------------------
\* C1: with a valid configuration, a positive scalar interval and a check
\* that always returns false, polling evaluates check exactly B times, B the
\* attempt budget (attempts in retry mode, floor(timeout / interval) in
\* timeout mode), and then stops.
C1_ExactlyBudgetEvaluations ==
    (Quiescent /\ ValidScalarConfig /\ trueAt = 0) => checkCalls = Budget

\* C2: when the budget is exhausted with ignoreFailureException = false and
\* no postFailureCallback, polling rejects with the caller's errorMessage if
\* one was configured and otherwise with the default message of the mode.
C2_RejectsWithConfiguredOrDefaultMessage ==
    (ValidConfig /\ exhausted /\ ~option.ignoreFailureException
        /\ ~option.postFailureCallback)
        => RejectedWith(ExpectedErrorMessage)

\* C3: if check first returns true on its k-th evaluation, k <= budget, then
\* polling made exactly k evaluations, no timer is pending after the k-th
\* evaluation and the promise is resolved with true.
C3_SuccessStopsPolling ==
    (trueAt > 0 /\ trueAt <= maxAttempts)
        => (checkCalls = trueAt /\ ~timer.pending /\ ResolvedWith(TRUE))

C3_Witness ==
    /\ trueAt = 3 /\ maxAttempts >= 3 /\ checkCalls = 3
    /\ ~timer.pending /\ ResolvedWith(TRUE)

\* C4: in timeout mode with timeout T and positive scalar interval I, every
\* status given to logCallback reports maxAttempts = floor(T / I), and when
\* check always returns false logCallback is invoked exactly floor(T / I)
\* times.
C4_TimeoutLogCount ==
    (pc = "called" /\ option.mode = "timeout" /\ ValidScalarConfig /\ option.logCallback)
        => /\ logCount > 0 => lastStatus.maxAttempts = Options_.timeout.v \div Options_.interval.v
           /\ (~timer.pending /\ trueAt = 0)
                 => logCount = Options_.timeout.v \div Options_.interval.v

C4_Witness ==
    /\ Quiescent /\ option.mode = "timeout" /\ option.logCallback /\ trueAt = 0
    /\ option.timeout = Just(100) /\ option.interval = Just(25)
    /\ logCount = 4 /\ lastStatus.maxAttempts = 4

\* C5: on exhaustion, when postFailureCallback returns a boolean b the
\* promise is resolved with b and not rejected, whatever the value of
\* ignoreFailureException.
C5_PostFailureBooleanResolves ==
    pfcReturned \in {"true", "false"} => ResolvedWith(pfcReturned = "true")

C5_Witness ==
    /\ exhausted /\ pfcReturned = "false" /\ ~option.ignoreFailureException
    /\ ResolvedWith(FALSE)

\* C6: on exhaustion with ignoreFailureException = false, whenever
\* postFailureCallback supplies no boolean (it is absent, or it returns
\* nothing), polling rejects with errorMessage.
C6_NoBooleanRejects ==
    (ValidConfig /\ exhausted /\ ~option.ignoreFailureException
        /\ pfcReturned \notin {"true", "false"})
        => RejectedWith(ExpectedErrorMessage)

\* C7: with ignoreFailureException = true and a configuration that passes
\* validation the promise is never rejected: it is pending or resolved.
C7_IgnoreNeverRejects ==
    (option.ignoreFailureException /\ Valid) => outcome.state \in {"pending", "resolved"}

C7_Witness ==
    /\ option.ignoreFailureException /\ Valid /\ exhausted
    /\ ~option.postFailureCallback /\ outcome.state = "pending"

-----------------------------------------------------------------------------
(* Properties of AbortablePromise, checked under AbortSpec *)
AbortCalled == abortCalls' = abortCalls + 1
IsSettled == Settled(ThePromise)

\* C8 (as claimed): abort(x) on a promise that has not yet settled rejects it
\* with an AbortError whose message is x, and "Aborted" when the reason is
\* omitted.
C8_AbortRejectsUnsettled ==
    [][(AbortCalled /\ ~IsSettled)
         => /\ pstate' = "rejected"
            /\ pvalue' = [k |-> "AbortError",
                          v |-> IF lastAbortArg'.k = "value" THEN lastAbortArg'.v
                                ELSE "Aborted"]]_vars

\* C8 (amended): abort(x) on a promise none of whose resolving functions has
\* been called yet rejects it with an AbortError whose message is x when x
\* is a non-empty string and "Aborted" when x is omitted or empty.
C8_AbortRejectsPending ==
    [][(AbortCalled /\ pstate = "pending")
         => /\ pstate' = "rejected"
            /\ pvalue' = [k |-> "AbortError",
                          v |-> IF lastAbortArg'.k = "value" /\ lastAbortArg'.v # ""
                                THEN lastAbortArg'.v ELSE "Aborted"]]_vars

C8_Witness ==
    /\ abortCalls = 1 /\ first = [op |-> "abort", arg |-> Just("x")]
    /\ pstate = "rejected" /\ pvalue = [k |-> "AbortError", v |-> "x"]

\* what the first call of resolve / reject / abort settles the promise to
FirstOutcome ==
    CASE first.op = "resolve" -> [state |-> "fulfilled", value |-> Value(first.arg.v)]
      [] first.op = "reject" -> [state |-> "rejected", value |-> Error(first.arg.v)]
      [] first.op = "abort" ->
            [state |-> "rejected",
             value |-> [k |-> "AbortError",
                        v |-> IF first.arg.k = "value" /\ first.arg.v # ""
                              THEN first.arg.v ELSE "Aborted"]]
      [] first.op = "resolvePromise" -> thenable
      [] OTHER -> [state |-> "pending", value |-> NoValue]

\* C9: under every interleaving of the executor's resolve / reject and of
\* abort calls, the settled outcome is the one the first call determines,
\* and no later call changes it.
C9_FirstCallWins == IsSettled => ThePromise = FirstOutcome

C9_Witness ==
    /\ first = [op |-> "resolve", arg |-> Just("v1")]
    /\ settleCalls = 2 /\ abortCalls = 2 /\ signalAborted
    /\ pstate = "fulfilled" /\ pvalue = Value("v1")

\* C10 (as claimed): abort on a settled promise changes neither the outcome
\* nor abortReason nor the state of the signal.
C10_AbortAfterSettleChangesNothing ==
    [][(AbortCalled /\ IsSettled)
         => UNCHANGED <<pstate, pvalue, abortReason, signalAborted>>]_vars

\* C10 (amended): abort on a settled promise leaves the settled outcome
\* unchanged; it stores the new reason (or "Aborted") in abortReason and
\* leaves the signal aborted.
C10_AbortAfterSettleKeepsOutcome ==
    [][(AbortCalled /\ IsSettled)
         => /\ UNCHANGED <<pstate, pvalue>>
            /\ abortReason' = Just(IF lastAbortArg'.k = "value" /\ lastAbortArg'.v # ""
                                   THEN lastAbortArg'.v ELSE "Aborted")
            /\ signalAborted']_vars

C10_Witness ==
    /\ first.op = "resolve" /\ pstate = "fulfilled"
    /\ abortCalls = 1 /\ abortReason = Just("x") /\ signalAborted

-----------------------------------------------------------------------------
\* C11 (as claimed): abortReason is undefined before the first abort call,
\* and afterwards it is the reason passed to the most recent call, or
\* "Aborted" if that call passed none.
C11_AbortReasonIsLastArgument ==
    IF abortCalls = 0 THEN abortReason = Undef("")
    ELSE abortReason = Just(IF lastAbortArg.k = "value" THEN lastAbortArg.v
                            ELSE "Aborted")

\* C11 (amended): abortReason is undefined before the first abort call, and
\* afterwards it is the reason passed to the most recent call when that
\* reason is a non-empty string, and "Aborted" when it was omitted or empty.
C11_AbortReasonIsLastNonEmptyArgument ==
    IF abortCalls = 0 THEN abortReason = Undef("")
    ELSE abortReason = Just(IF lastAbortArg.k = "value" /\ lastAbortArg.v # ""
                            THEN lastAbortArg.v ELSE "Aborted")

C11_Witness ==
    /\ abortCalls = 2 /\ first = [op |-> "abort", arg |-> Just("x")]
    /\ lastAbortArg = Just("y") /\ abortReason = Just("y")

-----------------------------------------------------------------------------
(* Properties of AbortablePromise.from, checked under FromSpec *)

\* C12: from(p) returns p itself whenever p is already an AbortablePromise,
\* so applying from to the result of from returns that same result.
C12_FromIsIdentityOnAbortable ==
    /\ (lastFrom.arg # 0 /\ kindOf[lastFrom.arg] = "abortable")
          => lastFrom.res = lastFrom.arg
    /\ (prevFrom.arg # 0 /\ lastFrom.arg = prevFrom.res)
          => lastFrom.res = prevFrom.res

C12_Witness ==
    /\ prevFrom = [arg |-> 1, res |-> 3]
    /\ lastFrom = [arg |-> 3, res |-> 3]
    /\ kindOf[1] = "plain" /\ kindOf[3] = "abortable"

\* C13: for a plain promise p and w = from(p): once the reaction to p's
\* settlement has run and w was not aborted first, w is fulfilled with p's
\* value or rejected with p's reason; aborting w while p is pending rejects
\* w with an AbortError; an abort never changes p's own settlement.
C13_WrapperFollowsSource ==
    [][/\ (reaction' = "done" /\ first'.op # "abort")
            => (pstate' = source'.state /\ pvalue' = source'.value)
       /\ (AbortCalled /\ source.state = "pending" /\ pstate = "pending")
            => (pstate' = "rejected" /\ pvalue'.k = "AbortError")
       /\ AbortCalled => source' = source]_vars

C13_Witness ==
    /\ wrapper # 0 /\ first.op = "abort"
    /\ pstate = "rejected" /\ pvalue.k = "AbortError"
    /\ source = [state |-> "fulfilled", value |-> Value("v1")] /\ reaction = "done"

-----------------------------------------------------------------------------
(* Validation of the polling options, checked under Spec *)
ConfigurationError == outcome.state = "rejected" /\ outcome.reason.k = "Error"
NothingInvoked == checkCalls = 0 /\ logCount = 0 /\ pfcCalls = 0 /\ ~timer.pending

\* C14: if mode is neither "retry" nor "timeout", polling fails with a
\* configuration error, check, logCallback and postFailureCallback are never
\* invoked and no timer is scheduled.
C14_InvalidModeFails ==
    (pc = "called" /\ option.mode \notin {"retry", "timeout"})
        => /\ ConfigurationError
           /\ outcome.reason.v = "mode must be either 'retry' or 'timeout'"
           /\ NothingInvoked

C14_Witness ==
    /\ pc = "called" /\ option.mode = "loop" /\ option.postFailureCallback
    /\ option.logCallback /\ ConfigurationError /\ NothingInvoked

\* C15: in timeout mode, if timeout or interval is not set (undefined or 0),
\* even when the other one is set, polling fails with a configuration error
\* before check is invoked.
C15_TimeoutModeNeedsBoth ==
    (pc = "called" /\ option.mode = "timeout"
        /\ (~Truthy(Options_.timeout) \/ ~TruthyInterval(Options_.interval)))
        => (ConfigurationError /\ checkCalls = 0)

\* C16: in retry mode, if attempts is not a positive number (undefined, 0 or
\* negative), polling fails with a configuration error before check is
\* invoked.
C16_RetryModeNeedsPositiveAttempts ==
    (pc = "called" /\ option.mode = "retry"
        /\ ~(Options_.attempts.k = "value" /\ Options_.attempts.v > 0))
        => (ConfigurationError /\ checkCalls = 0)

-----------------------------------------------------------------------------
(* Interval sequences, log and failure callbacks, checked under Spec *)
LastOf(a) == a[Len(a)]

\* C17: in timeout mode with an interval sequence of more than one element
\* the sequence is not consumed, and every failed attempt within budget is
\* followed by a next attempt scheduled after the last element of the
\* sequence.
C17_TimeoutSequenceKeepsPolling ==
    (pc = "called" /\ option.mode = "timeout" /\ ValidConfig
        /\ IsArray(option.interval) /\ Len(callerInterval) > 1)
        => /\ Len(intervalArray) = Len(callerInterval)
           /\ (trueAt = 0 /\ ~exhausted)
                 => (timer.pending /\ timer.delay = LastOf(callerInterval))

\* C18: in retry mode with an interval sequence s1..sn the delay scheduled
\* after the j-th failed evaluation is sj for j < n and sn for j >= n; a
\* sequence of one element gives that element for every attempt in both
\* modes.
C18_RetrySequenceInCallerOrder ==
    (pc = "called" /\ IsArray(option.interval) /\ timer.pending
        /\ (option.mode = "retry" \/ Len(callerInterval) = 1))
        => timer.delay = callerInterval[IF checkCalls < Len(callerInterval)
                                        THEN checkCalls ELSE Len(callerInterval)]

C18_Witness ==
    /\ option.mode = "retry" /\ callerInterval = <<10, 20, 30>>
    /\ checkCalls = 4 /\ timer = [pending |-> TRUE, delay |-> 30]

\* C19: when logCallback is supplied it is invoked once for every evaluation
\* of check, the exhausting one included: when the run has come to rest the
\* number of logCallback invocations equals the number of evaluations
\* (stated for valid configurations with a positive scalar interval).
C19_LogPerEvaluation ==
    (Quiescent /\ ValidScalarConfig /\ option.logCallback) => logCount = checkCalls

\* C20: within one run postFailureCallback is invoked exactly once if the
\* budget is exhausted without check returning true, and never if check
\* returned true on some attempt.
C20_PostFailureOnceOnExhaustion ==
    option.postFailureCallback
        => /\ exhausted => pfcCalls = 1
           /\ trueAt > 0 => pfcCalls = 0
           /\ pfcCalls > 0 => (exhausted /\ trueAt = 0 /\ ~timer.pending)

C20_Witness ==
    /\ option.postFailureCallback /\ exhausted /\ trueAt = 0
    /\ checkCalls = 3 /\ pfcCalls = 1 /\ ~timer.pending

-----------------------------------------------------------------------------
\* C21: within one run attempts execute one after another: at most one
\* timer is pending at any time, check is never evaluated while a timer of
\* the run is pending, and the attempt index of successive statuses is
\* 1, 2, 3, ...
C21_AttemptsAreSequential ==
    /\ timerCount <= 1
    /\ timer.pending <=> timerCount = 1
    /\ timersAtCheck = 0
    /\ lastStatus.attempt = logCount

C21_Witness ==
    /\ option.logCallback /\ checkCalls = 3 /\ logCount = 3
    /\ lastStatus.attempt = 3 /\ timerCount = 1 /\ timer.pending

\* C23: every invocation that passes validation reaches a terminal outcome
\* once its timers have fired: when the run has come to rest (started, no
\* timer pending) the promise is resolved or rejected (stated for valid
\* configurations with a positive scalar interval).
C23_RestingRunIsSettled ==
    (Quiescent /\ ValidScalarConfig) => outcome.state \in {"resolved", "rejected"}

\* C24: with a positive scalar interval, ignoreFailureException = false and
\* no postFailureCallback, a run that passes validation makes at most
\* budget + 1 evaluations of check, is resolved with true or rejected when
\* it has come to rest, and once settled has no timer pending.
C24_SettlesWithinBudgetPlusOne ==
    (pc = "called" /\ Valid /\ PositiveScalarInterval
        /\ ~option.ignoreFailureException /\ ~option.postFailureCallback)
        => /\ checkCalls <= maxAttempts + 1
           /\ Quiescent => (ResolvedWith(TRUE) \/ outcome.state = "rejected")
           /\ outcome.state # "pending" => ~timer.pending

\* C25: with ignoreFailureException = true and no postFailureCallback, once
\* the budget is exhausted the promise is pending and stays so, no timer is
\* pending, and check is not evaluated again.
C25_IgnoredExhaustionStaysPending ==
    [][(exhausted' /\ option.ignoreFailureException /\ ~option.postFailureCallback)
         => /\ outcome'.state = "pending"
            /\ ~timer'.pending /\ timerCount' = 0
            /\ exhausted => checkCalls' = checkCalls]_vars

C25_Witness ==
    /\ option.ignoreFailureException /\ ~option.postFailureCallback
    /\ exhausted /\ maxAttempts = 2 /\ checkCalls = 3
    /\ outcome.state = "pending" /\ timerCount = 0

\* C27: for every attempt after the first, the interval field of the status
\* emitted for that attempt equals the delay of the timer that was waited
\* for immediately before the attempt (scalar intervals, and interval
\* sequences in retry mode).
C27_StatusIntervalIsDelayWaited ==
    [][(ValidConfig /\ option.logCallback /\ timer.pending
          /\ logCount' = logCount + 1
          /\ (~IsArray(Options_.interval) \/ option.mode = "retry"))
         => lastStatus'.interval = Just(timer.delay)]_vars

\* C28: after a run the caller's interval array has the same elements in the
\* same order as before the call.
C28_CallerIntervalUntouched ==
    (Quiescent /\ ValidConfig /\ IsArray(Options_.interval))
        => intervalArray = callerInterval

\* C29: in every status emitted to logCallback 1 <= attempt <= maxAttempts
\* (stated for valid configurations with a budget of at least one).
C29_AttemptWithinBudget ==
    (ValidConfig /\ logCount > 0 /\ maxAttempts >= 1)
        => (1 <= lastStatus.attempt /\ lastStatus.attempt <= lastStatus.maxAttempts)

-----------------------------------------------------------------------------
\* C26: the constructor's abort listener is registered before the executor
\* is invoked, so when abort is called on a pending promise whose executor
\* attached its own abort listener, the promise ends rejected with the
\* AbortError whatever that listener calls (resolve included).
C26_WrapperListenerRunsFirst ==
    [][(AbortCalled /\ executorListener # "none" /\ pstate = "pending")
         => (pstate' = "rejected" /\ pvalue' = AbortError(abortReason'))]_vars

C26_Witness ==
    /\ executorListener = "resolve" /\ abortCalls = 1 /\ first.op = "abort"
    /\ pstate = "rejected" /\ pvalue.k = "AbortError"

\* a promise rejected by an abort
RejectedByAbort == pstate = "rejected" /\ pvalue.k = "AbortError"

\* C30 (as claimed): whenever the promise has been rejected by an abort,
\* abortReason equals the message of the AbortError, after any number of
\* further abort calls.
C30_AbortReasonIsErrorMessage ==
    RejectedByAbort => abortReason = Just(pvalue.v)

\* C30 (amended): whenever the promise has been rejected by an abort, the
\* message of the AbortError is the reason stored by the abort call that
\* rejected it (abortReason right after that call); further abort calls
\* overwrite abortReason and leave the error unchanged.
C30_ErrorMessageIsFirstAbortReason ==
    RejectedByAbort
        => /\ first.op = "abort"
           /\ pvalue.v = (IF first.arg.k = "value" /\ first.arg.v # "" THEN first.arg.v
                          ELSE "Aborted")
           /\ abortCalls = 1 => abortReason = Just(pvalue.v)

C30_Witness ==
    /\ RejectedByAbort /\ abortCalls = 2 /\ first = [op |-> "abort", arg |-> Just("x")]
    /\ pvalue.v = "x" /\ abortReason = Just("y")

-----------------------------------------------------------------------------
(* Two calls on one option object, checked under TwoSpec *)
\* the delay a run alone schedules after its k-th failed evaluation (C18)
SoloDelay(k) ==
    IF IsArray(option.interval)
    THEN callerInterval[IF k < Len(callerInterval) THEN k ELSE Len(callerInterval)]
    ELSE Options_.interval.v

\* C22: two polling calls whose attempts interleave do not affect each
\* other, also when both were given the same option object with an interval
\* sequence: in retry mode each schedules the delays it schedules when run
\* alone, and a run whose check never returned true has come to rest only
\* after budget + 1 evaluations.
C22_InterleavedRunsIndependent ==
    option.mode = "retry"
        => /\ (pc = "called" /\ timer.pending) => timer.delay = SoloDelay(checkCalls)
           /\ (second.pc = "called" /\ second.timer.pending)
                 => second.timer.delay = SoloDelay(second.checkCalls)
           /\ (Quiescent /\ trueAt = 0) => checkCalls = maxAttempts + 1
           /\ (second.pc = "called" /\ ~second.timer.pending /\ second.trueAt = 0)
                 => second.checkCalls = second.maxAttempts + 1

====
